---- MODULE Spec2Model ----
(***************************************************************************)
(* Model of the agent based epidemic engine of calc/simulation.py:         *)
(* Person, HealthcareSystem, Disease, Population, RandomPool, Context and  *)
(* the driver loop of simulate_individuals.                                *)
(*                                                                         *)
(* Probabilities are integers in units of 1/10000 (ONE == 10000), so that  *)
(* the product of two percentages is exact.  A value returned by           *)
(* np.random.lognormal is an integer number of quarters.                   *)
(***************************************************************************)
EXTENDS Integers, Sequences, FiniteSets, TLC

(***************************************************************************)
(* Bounds of the model and the inputs of a run.                            *)
(***************************************************************************)
\* age_counts: number of persons of age 0, 1, ... (index a + 1 holds age a)
AgeCounts == <<1, 1>>

\* the largest number of context.iterate() calls of a run
MaxDays == 31

\* the largest value (in whole units) of the lognormal draw of contacts_per_day
MaxLognormal == 1

\* hospital_beds and icu_units are 0 or MaxCapacity
MaxCapacity == 1

\* the day of the late interventions of the runs
LateDay == 9

\* simulation_days of the runs of simulate_individuals
SimulationDays == 3

\* probability 1.0 in units of 1/10000
ONE == 10000

Ages == 0..(Len(AgeCounts) - 1)

RECURSIVE SumCounts(_)
SumCounts(a) == IF a < 0 THEN 0 ELSE AgeCounts[a + 1] + SumCounts(a - 1)

NrPeople == SumCounts(Len(AgeCounts) - 1)

Idx == 0..(NrPeople - 1)

\* values of RandomPool.get(), in [0, 1)
RandomValues == {0, 2500, 5000, 9999}

\* values of np.random.lognormal(1.0, 0.5), in quarters
IncubationLognormal == {0, 20}

\* values of np.random.lognormal(1.0, 0.7), in quarters
ContactsLognormal == {4 * k : k \in 0..MaxLognormal}

\* avg_contacts_per_day[age]
AvgContacts == [a \in Ages |-> 1]

\* the disease parameters of a run, percentages as in `variables`
DiseaseParams ==
    [p_infection |-> 100, p_asymptomatic |-> 25, p_critical |-> 50,
     p_severe |-> <<<<0, 50>>>>,
     p_hospital_death |-> 50, p_icu_death |-> 50,
     p_hospital_death_no_beds |-> 20, p_icu_death_no_beds |-> 100]

(***************************************************************************)
(* Enumerations                                                            *)
(***************************************************************************)
SymptomSeverity == {"ASYMPTOMATIC", "MILD", "SEVERE", "CRITICAL"}

PersonState == {"SUSCEPTIBLE", "INCUBATION", "ILLNESS", "HOSPITALIZED",
                "IN_ICU", "RECOVERED", "DEAD"}

TestingMode == {"NO_TESTING", "ALL_WITH_SYMPTOMS_CT", "ALL_WITH_SYMPTOMS",
                "ONLY_SEVERE_SYMPTOMS"}

\* python int(): truncation towards zero of n / d, d > 0
TruncDiv(n, d) == IF n >= 0 THEN n \div d ELSE -((-n) \div d)

(***************************************************************************)
(* Person.__init__ and create_population                                   *)
(***************************************************************************)
Person(age) ==
    [age |-> age, is_infected |-> 0, was_detected |-> 0, has_immunity |-> 0,
     days_left |-> 0, day_of_illness |-> 0, queued_for_testing |-> 0,
     other_people_infected |-> 0, other_people_exposed_today |-> 0,
     symptom_severity |-> "ASYMPTOMATIC", state |-> "SUSCEPTIBLE",
     infector |-> -1, infectees |-> <<>>]

\* the age of the person created with index i: persons are created age by age
AgeOfIdx(i) == CHOOSE a \in Ages : SumCounts(a - 1) <= i /\ i < SumCounts(a)

create_population == [i \in Idx |-> Person(AgeOfIdx(i))]

(***************************************************************************)
(* Population                                                              *)
(***************************************************************************)
Population ==
    [susceptible |-> [a \in Ages |-> AgeCounts[a + 1]],
     infected |-> [a \in Ages |-> 0],
     detected |-> [a \in Ages |-> 0],
     all_detected |-> [a \in Ages |-> 0],
     recovered |-> [a \in Ages |-> 0],
     hospitalized |-> [a \in Ages |-> 0],
     dead |-> [a \in Ages |-> 0],
     limit_mass_gatherings |-> 0,
     population_mobility_factor |-> 100]

\* contacts_per_day that leaves population_mobility_factor out
Population_contacts_per_day_ignores_mobility(c, i, l, factor, limit) ==
    LET f == factor * 100
        contacts == TruncDiv(l * AvgContacts[c.people[i].age] * f, 4 * 100 * 100)
        lmg == c.pop.limit_mass_gatherings
        capped == IF lmg # 0 /\ contacts > lmg THEN lmg ELSE contacts
    IN  IF capped > limit THEN limit ELSE capped

\* l is the lognormal draw in quarters, factor and the mobility factor are
\* percentages
Population_contacts_per_day(c, i, l, factor, limit) ==
    LET f == factor * c.pop.population_mobility_factor
        contacts == TruncDiv(l * AvgContacts[c.people[i].age] * f, 4 * 100 * 100)
        lmg == c.pop.limit_mass_gatherings
        capped == IF lmg # 0 /\ contacts > lmg THEN lmg ELSE contacts
    IN  IF capped > limit THEN limit ELSE capped

Population_infect(c, i) ==
    LET age == c.people[i].age
    IN  [c EXCEPT !.pop.susceptible[age] = @ - 1,
                  !.pop.infected[age] = @ + 1]

Population_recover(c, i) ==
    LET age == c.people[i].age
    IN  [c EXCEPT !.pop.infected[age] = @ - 1,
                  !.pop.recovered[age] = @ + 1,
                  !.pop.detected[age] =
                      IF c.people[i].was_detected # 0 THEN @ - 1 ELSE @]

Population_detect(c, i) ==
    LET age == c.people[i].age
    IN  [c EXCEPT !.pop.detected[age] = @ + 1,
                  !.pop.all_detected[age] = @ + 1]

Population_hospitalize(c, i) ==
    [c EXCEPT !.pop.hospitalized[c.people[i].age] = @ + 1]

Population_release_from_hospital(c, i) ==
    [c EXCEPT !.pop.hospitalized[c.people[i].age] = @ - 1]

\* Population.die without the decrement of infected
Population_die_keeps_infected(c, i) ==
    LET age == c.people[i].age
    IN  [c EXCEPT !.pop.dead[age] = @ + 1,
                  !.pop.detected[age] =
                      IF c.people[i].was_detected # 0 THEN @ - 1 ELSE @]

Population_die(c, i) ==
    LET age == c.people[i].age
    IN  [c EXCEPT !.pop.infected[age] = @ - 1,
                  !.pop.dead[age] = @ + 1,
                  !.pop.detected[age] =
                      IF c.people[i].was_detected # 0 THEN @ - 1 ELSE @]

(***************************************************************************)
(* RandomPool.chance, val is the value of get()                            *)
(***************************************************************************)
RandomPool_chance(p, val) ==
    IF p = ONE THEN TRUE
    ELSE IF p = 0 THEN FALSE
    ELSE val < p

(***************************************************************************)
(* Disease                                                                 *)
(***************************************************************************)
\* INFECTIOUSNESS_OVER_TIME, the chances in percent
INFECTIOUSNESS_OVER_TIME ==
    <<<<-2, 12>>, <<-1, 29>>, <<0, 27>>, <<1, 7>>, <<2, 5>>, <<3, 4>>,
      <<4, 3>>, <<5, 2>>, <<6, 2>>, <<7, 1>>, <<8, 1>>, <<9, 1>>, <<10, 1>>>>

RECURSIVE InfectiousnessLookup(_, _, _)
InfectiousnessLookup(k, day, p_infection) ==
    IF k > Len(INFECTIOUSNESS_OVER_TIME) THEN 0
    ELSE IF day < INFECTIOUSNESS_OVER_TIME[k][1] THEN 0
    ELSE IF day = INFECTIOUSNESS_OVER_TIME[k][1]
         THEN p_infection * INFECTIOUSNESS_OVER_TIME[k][2]
    ELSE InfectiousnessLookup(k + 1, day, p_infection)

\* raises unless the source is in INCUBATION or ILLNESS
Disease_get_source_infectiousness_raises(p) ==
    p.state \notin {"INCUBATION", "ILLNESS"}

Disease_get_source_infectiousness(d, p) ==
    LET day == IF p.state = "INCUBATION" THEN -p.days_left ELSE p.day_of_illness
    IN  InfectiousnessLookup(1, day, d.p_infection)

Disease_dies_in_hospital(d, in_icu, care_available, val) ==
    LET chance == IF in_icu
                  THEN (IF care_available THEN d.p_icu_death
                        ELSE d.p_icu_death_no_beds)
                  ELSE (IF care_available THEN d.p_hospital_death
                        ELSE d.p_hospital_death_no_beds)
    IN  RandomPool_chance(chance * 100, val)

\* get_incubation_days without the limit of 14 days
Disease_get_incubation_days_unlimited(l) == 1 + l

\* l is the lognormal draw in quarters
Disease_get_incubation_days(l) ==
    LET days == 1 + l IN IF days > 14 THEN 14 ELSE days

Disease_get_illness_days == 7

Disease_get_hospitalisation_days == 14

Disease_get_icu_days == 21

RECURSIVE SevereChance(_, _, _, _)
SevereChance(p_severe, k, age, sofar) ==
    IF k > Len(p_severe) THEN sofar
    ELSE IF p_severe[k][1] > age THEN sofar
    ELSE SevereChance(p_severe, k + 1, age, p_severe[k][2])

Disease_get_symptom_severity(d, p, val) ==
    LET severe_chance == SevereChance(d.p_severe, 1, p.age, 0)
    IN  IF val < severe_chance * d.p_critical THEN "CRITICAL"
        ELSE IF val < severe_chance * 100 THEN "SEVERE"
        ELSE IF val < (100 - d.p_asymptomatic) * 100 THEN "MILD"
        ELSE "ASYMPTOMATIC"

(***************************************************************************)
(* HealthcareSystem.  The operators take and return the bundle             *)
(* c == [people, pop, hc, raised]; c.raised names the exception that       *)
(* ended the call ("" when it returned).                                   *)
(***************************************************************************)
HealthcareSystem(beds, icu_units) ==
    [beds |-> beds, icu_units |-> icu_units,
     available_beds |-> beds, available_icu_units |-> icu_units,
     testing_mode |-> "NO_TESTING", testing_queue |-> <<>>,
     tests_run_per_day |-> 0]

Raise(c, exc) == [c EXCEPT !.raised = exc]

\* queue_for_testing that does not look at the queued flag
HealthcareSystem_queue_for_testing_ok_ignores_queued(c, person_idx) ==
    LET p == c.people[person_idx]
    IN  ~(p.state = "DEAD" \/ p.was_detected # 0)

\* the value queue_for_testing returns
HealthcareSystem_queue_for_testing_ok(c, person_idx) ==
    LET p == c.people[person_idx]
    IN  ~(p.state = "DEAD" \/ p.was_detected # 0 \/ p.queued_for_testing # 0)

HealthcareSystem_queue_for_testing(c, person_idx) ==
    IF ~HealthcareSystem_queue_for_testing_ok(c, person_idx) THEN c
    ELSE [c EXCEPT !.people[person_idx].queued_for_testing = 1,
                   !.hc.testing_queue = Append(@, person_idx)]

\* the infector followed by the infectees
ContactsOf(p) == <<p.infector>> \o p.infectees

\* the inner loop of perform_contact_tracing over contacts[k..]
RECURSIVE TraceContacts(_, _, _, _)
TraceContacts(c, contacts, k, next_contacts) ==
    IF k > Len(contacts) THEN [c |-> c, next_contacts |-> next_contacts]
    ELSE LET idx == contacts[k]
         IN  IF idx < 0 THEN TraceContacts(c, contacts, k + 1, next_contacts)
             ELSE IF ~HealthcareSystem_queue_for_testing_ok(c, idx)
                  THEN TraceContacts(c, contacts, k + 1, next_contacts)
             ELSE TraceContacts(HealthcareSystem_queue_for_testing(c, idx),
                                contacts, k + 1,
                                next_contacts \o ContactsOf(c.people[idx]))

\* the outer loop with a fourth round
RECURSIVE TraceRounds_four_rounds(_, _, _)
TraceRounds_four_rounds(c, contacts, i) ==
    IF i >= 4 THEN c
    ELSE LET r == TraceContacts(c, contacts, 1, <<>>)
         IN  TraceRounds_four_rounds(r.c, r.next_contacts, i + 1)

\* the outer loop, for i in range(3)
RECURSIVE TraceRounds(_, _, _)
TraceRounds(c, contacts, i) ==
    IF i >= 3 THEN c
    ELSE LET r == TraceContacts(c, contacts, 1, <<>>)
         IN  TraceRounds(r.c, r.next_contacts, i + 1)

HealthcareSystem_perform_contact_tracing(c, person_idx) ==
    TraceRounds(c, ContactsOf(c.people[person_idx]), 0)

HealthcareSystem_is_detected_raises(c, idx) ==
    Disease_get_source_infectiousness_raises(c.people[idx])

HealthcareSystem_is_detected(c, idx) ==
    IF Disease_get_source_infectiousness(DiseaseParams, c.people[idx]) # 0 THEN TRUE
    ELSE c.people[idx].state \in {"HOSPITALIZED", "IN_ICU"}

Person_detect(c, i) ==
    Population_detect([c EXCEPT !.people[i].was_detected = 1], i)

\* the loop of iterate that runs the tests of queue[k..]
RECURSIVE RunTests(_, _, _)
RunTests(c, queue, k) ==
    IF k > Len(queue) THEN c
    ELSE LET idx == queue[k]
             person == c.people[idx]
         IN  IF person.queued_for_testing = 0 THEN Raise(c, "Exception")
             ELSE LET c1 == [c EXCEPT !.people[idx].queued_for_testing = 1]
                  IN  IF person.is_infected = 0 \/ person.was_detected # 0
                      THEN RunTests(c1, queue, k + 1)
                      ELSE IF HealthcareSystem_is_detected_raises(c1, idx)
                      THEN Raise(c1, "Exception")
                      ELSE IF ~HealthcareSystem_is_detected(c1, idx)
                      THEN RunTests(c1, queue, k + 1)
                      ELSE LET c2 == Person_detect(c1, idx)
                               c3 == IF c2.hc.testing_mode = "ALL_WITH_SYMPTOMS_CT"
                                     THEN HealthcareSystem_perform_contact_tracing(c2, idx)
                                     ELSE c2
                           IN  RunTests(c3, queue, k + 1)

\* iterate() that runs the tests and leaves the queue in place
HealthcareSystem_iterate_keeps_queue(c) ==
    LET queue == c.hc.testing_queue
    IN  RunTests([c EXCEPT !.hc.tests_run_per_day = Len(queue)], queue, 1)

HealthcareSystem_iterate(c) ==
    LET queue == c.hc.testing_queue
    IN  RunTests([c EXCEPT !.hc.tests_run_per_day = Len(queue),
                           !.hc.testing_queue = <<>>],
                 queue, 1)

\* val is the value of random.get() that chance(.02) reads
HealthcareSystem_seek_testing(c, i, val) ==
    LET mode == c.hc.testing_mode
        severity == c.people[i].symptom_severity
    IN  IF mode \in {"ALL_WITH_SYMPTOMS", "ALL_WITH_SYMPTOMS_CT"}
        THEN HealthcareSystem_queue_for_testing(c, i)
        ELSE IF mode = "ONLY_SEVERE_SYMPTOMS"
        THEN IF severity \in {"SEVERE", "CRITICAL"} \/ RandomPool_chance(200, val)
             THEN HealthcareSystem_queue_for_testing(c, i)
             ELSE c
        ELSE Raise(c, "Exception")

\* the value hospitalize() returns
HealthcareSystem_hospitalize_ok(c) == c.hc.available_beds # 0

\* hospitalize() that takes no bed
HealthcareSystem_hospitalize_takes_none(c) == c

HealthcareSystem_hospitalize(c) ==
    IF c.hc.available_beds = 0 THEN c
    ELSE [c EXCEPT !.hc.available_beds = @ - 1]

HealthcareSystem_set_testing_mode(c, mode) == [c EXCEPT !.hc.testing_mode = mode]

HealthcareSystem_release(c) ==
    LET c1 == [c EXCEPT !.hc.available_beds = @ + 1]
    IN  IF c1.hc.available_beds <= c1.hc.beds THEN c1
        ELSE Raise(c1, "AssertionError")

\* to_icu() that reports a unit whether or not one is free
HealthcareSystem_to_icu_ok_always(c) == TRUE

\* the value to_icu() returns
HealthcareSystem_to_icu_ok(c) == c.hc.available_icu_units # 0

HealthcareSystem_to_icu(c) ==
    IF c.hc.available_icu_units = 0 THEN c
    ELSE [c EXCEPT !.hc.available_icu_units = @ - 1]

HealthcareSystem_release_from_icu(c) ==
    LET c1 == [c EXCEPT !.hc.available_icu_units = @ + 1]
    IN  IF c1.hc.available_icu_units <= c1.hc.icu_units THEN c1
        ELSE Raise(c1, "AssertionError")

(***************************************************************************)
(* Person                                                                  *)
(***************************************************************************)
\* source is an index, or -1 for None; l is the lognormal draw of
\* get_incubation_days
Person_infect(c, i, source, l) ==
    LET c1 == [c EXCEPT !.people[i].state = "INCUBATION",
                        !.people[i].days_left = Disease_get_incubation_days(l),
                        !.people[i].is_infected = 1]
        c2 == IF source # -1
              THEN [c1 EXCEPT !.people[i].infector = source,
                              !.people[source].infectees = Append(@, i)]
              ELSE c1
    IN  Population_infect(c2, i)

Disease_did_infect(c, source, val) ==
    RandomPool_chance(
        Disease_get_source_infectiousness(DiseaseParams, c.people[source]), val)

\* the value expose() returns
Person_expose_ok(c, i, source, val) ==
    /\ ~(c.people[i].is_infected # 0 \/ c.people[i].has_immunity # 0)
    /\ Disease_did_infect(c, source, val)

Person_expose(c, i, source, val, l) ==
    IF Person_expose_ok(c, i, source, val) THEN Person_infect(c, i, source, l)
    ELSE c

Person_recover(c, i) ==
    Population_recover([c EXCEPT !.people[i].state = "RECOVERED",
                                 !.people[i].is_infected = 0,
                                 !.people[i].has_immunity = 1], i)

\* Person.die that leaves is_infected set
Person_die_still_infected(c, i) ==
    Population_die([c EXCEPT !.people[i].has_immunity = 1,
                             !.people[i].state = "DEAD"], i)

Person_die(c, i) ==
    Population_die([c EXCEPT !.people[i].is_infected = 0,
                             !.people[i].has_immunity = 1,
                             !.people[i].state = "DEAD"], i)

\* hospitalize() without the detection of an undetected person
Person_hospitalize_without_detect(c, i, val) ==
    IF c.people[i].symptom_severity = "CRITICAL"
    THEN IF ~HealthcareSystem_to_icu_ok(c) THEN Person_die(c, i)
         ELSE Population_hospitalize(
                  [HealthcareSystem_to_icu(c) EXCEPT
                      !.people[i].state = "IN_ICU",
                      !.people[i].days_left = Disease_get_icu_days], i)
    ELSE IF ~HealthcareSystem_hospitalize_ok(c)
         THEN IF Disease_dies_in_hospital(DiseaseParams, FALSE, FALSE, val)
              THEN Person_die(c, i)
              ELSE Person_recover(c, i)
         ELSE Population_hospitalize(
                  [HealthcareSystem_hospitalize(c) EXCEPT
                      !.people[i].state = "HOSPITALIZED",
                      !.people[i].days_left = Disease_get_hospitalisation_days], i)

\* hospitalize() that sends every case to the ward
Person_hospitalize_ward_only(c, i, val) ==
    LET c1 == IF c.people[i].was_detected = 0 THEN Person_detect(c, i) ELSE c
    IN  IF ~HealthcareSystem_hospitalize_ok(c1)
        THEN IF Disease_dies_in_hospital(DiseaseParams, FALSE, FALSE, val)
             THEN Person_die(c1, i)
             ELSE Person_recover(c1, i)
        ELSE Population_hospitalize(
                 [HealthcareSystem_hospitalize(c1) EXCEPT
                     !.people[i].state = "HOSPITALIZED",
                     !.people[i].days_left = Disease_get_hospitalisation_days], i)

\* val is the value of random.get() that dies_in_hospital reads
Person_hospitalize(c, i, val) ==
    LET c1 == IF c.people[i].was_detected = 0 THEN Person_detect(c, i) ELSE c
    IN  IF c1.people[i].symptom_severity = "CRITICAL"
        THEN IF ~HealthcareSystem_to_icu_ok(c1) THEN Person_die(c1, i)
             ELSE Population_hospitalize(
                      [HealthcareSystem_to_icu(c1) EXCEPT
                          !.people[i].state = "IN_ICU",
                          !.people[i].days_left = Disease_get_icu_days], i)
        ELSE IF ~HealthcareSystem_hospitalize_ok(c1)
             THEN IF Disease_dies_in_hospital(DiseaseParams, FALSE, FALSE, val)
                  THEN Person_die(c1, i)
                  ELSE Person_recover(c1, i)
             ELSE Population_hospitalize(
                      [HealthcareSystem_hospitalize(c1) EXCEPT
                          !.people[i].state = "HOSPITALIZED",
                          !.people[i].days_left = Disease_get_hospitalisation_days], i)

Person_release_from_hospital(c, i, val) ==
    LET c1 == Population_release_from_hospital(c, i)
        in_icu == c1.people[i].state = "IN_ICU"
        death == Disease_dies_in_hospital(DiseaseParams, in_icu, TRUE, val)
        c2 == IF in_icu THEN HealthcareSystem_release_from_icu(c1)
              ELSE HealthcareSystem_release(c1)
    IN  IF c2.raised # "" THEN c2
        ELSE IF death THEN Person_die(c2, i)
        ELSE Person_recover(c2, i)

\* the loop of expose_others from contact k on; targets, vals and ls are the
\* draws of each contact: the index, the chance value, the incubation draw
RECURSIVE ExposeLoop(_, _, _, _, _, _, _)
ExposeLoop(c, i, k, nr_contacts, targets, vals, ls) ==
    IF k > nr_contacts THEN c
    ELSE LET exposee_idx == targets[k]
             c1 == Person_expose(c, exposee_idx, i, vals[k], ls[k])
             c2 == IF Person_expose_ok(c, exposee_idx, i, vals[k])
                   THEN [c1 EXCEPT !.people[i].infectees = Append(@, exposee_idx),
                                   !.people[i].other_people_infected = @ + 1]
                   ELSE c1
         IN  ExposeLoop(c2, i, k + 1, nr_contacts, targets, vals, ls)

Person_expose_others(c, i, nr_contacts, targets, vals, ls) ==
    ExposeLoop([c EXCEPT !.people[i].other_people_exposed_today = nr_contacts],
               i, 1, nr_contacts, targets, vals, ls)

\* sev and val are the values of random.get() read by get_symptom_severity and
\* by seek_testing
Person_become_ill(c, i, sev, val) ==
    LET severity == Disease_get_symptom_severity(DiseaseParams, c.people[i], sev)
        c1 == [c EXCEPT !.people[i].state = "ILLNESS",
                        !.people[i].symptom_severity = severity,
                        !.people[i].days_left = Disease_get_illness_days]
    IN  IF severity # "ASYMPTOMATIC" /\ c1.people[i].was_detected = 0
        THEN HealthcareSystem_seek_testing(c1, i, val)
        ELSE c1

\* people_exposed without the quarantine of detected persons
Disease_people_exposed_no_quarantine(c, i, l) ==
    LET person == c.people[i]
    IN  IF Disease_get_source_infectiousness(DiseaseParams, person) = 0 THEN 0
        ELSE IF person.state = "INCUBATION"
        THEN Population_contacts_per_day(c, i, l, 100, 100)
        ELSE IF person.symptom_severity = "ASYMPTOMATIC"
        THEN Population_contacts_per_day(c, i, l, 100, 100)
        ELSE Population_contacts_per_day(c, i, l, 50, 5)

\* l is the lognormal draw of contacts_per_day (read only when it is called)
Disease_people_exposed(c, i, l) ==
    LET person == c.people[i]
    IN  IF person.was_detected # 0 THEN 0
        ELSE IF Disease_get_source_infectiousness(DiseaseParams, person) = 0 THEN 0
        ELSE IF person.state = "INCUBATION"
        THEN Population_contacts_per_day(c, i, l, 100, 100)
        ELSE IF person.symptom_severity = "ASYMPTOMATIC"
        THEN Population_contacts_per_day(c, i, l, 100, 100)
        ELSE Population_contacts_per_day(c, i, l, 50, 5)

\* d holds the random draws of the call: l, targets, vals, ls (exposure), sev,
\* test (become_ill) and death (hospitalize, release_from_hospital)
Person_advance(c, i, d) ==
    LET c0 == [c EXCEPT !.people[i].other_people_exposed_today = 0]
        state == c0.people[i].state
        people_exposed == Disease_people_exposed(c0, i, d.l)
        c1 == IF people_exposed # 0
              THEN Person_expose_others(c0, i, people_exposed, d.targets, d.vals, d.ls)
              ELSE c0
    IN  IF state = "INCUBATION"
        THEN LET c2 == [c1 EXCEPT !.people[i].days_left = @ - 1]
             IN  IF c2.people[i].days_left = 0
                 THEN Person_become_ill(c2, i, d.sev, d.test)
                 ELSE c2
        ELSE IF state = "ILLNESS"
        THEN LET c2 == [c1 EXCEPT !.people[i].day_of_illness = @ + 1,
                                  !.people[i].days_left = @ - 1]
             IN  IF c2.people[i].days_left = 0
                 THEN IF c2.people[i].symptom_severity \in {"SEVERE", "CRITICAL"}
                      THEN Person_hospitalize(c2, i, d.death)
                      ELSE Person_recover(c2, i)
                 ELSE c2
        ELSE IF state \in {"HOSPITALIZED", "IN_ICU"}
        THEN LET c2 == [c0 EXCEPT !.people[i].days_left = @ - 1]
             IN  IF c2.people[i].days_left = 0
                 THEN Person_release_from_hospital(c2, i, d.death)
                 ELSE c2
        ELSE c0

(***************************************************************************)
(* Context: the state of a run                                             *)
(***************************************************************************)
VARIABLES
    people,             \* Context.people
    pop,                \* Context.pop
    hc,                 \* Context.hc
    day,                \* Context.day
    total_infectors,    \* Context.total_infectors
    total_infections,   \* Context.total_infections
    exposed_per_day,    \* Context.exposed_per_day
    interventions,      \* Context.interventions
    pc,                 \* the position of the run
    iv_pos,             \* Context.iterate: position of the loop over interventions
    person_pos,         \* Context.iterate: position of the loop over people
    exc,                \* the exception that ended the run, "" if none
    applied,            \* history: for each position of Context.interventions,
                        \* the number of apply_intervention calls that returned
    days,               \* simulate_individuals: variables['simulation_days']
    loop_day,           \* simulate_individuals: the loop variable `day`
    df,                 \* simulate_individuals: the rows of df set so far
    has_callback,       \* simulate_individuals: step_callback is not None
    cb_df,              \* the rows of the df the last step_callback call was given
    cb_calls,           \* the number of step_callback calls
    infected_on,        \* history: for each person, the value of Context.day in
                        \* the iterate() call of its latest infect(), -1 when
                        \* the person is not infected
    cache,              \* common.cache: the entries of one cache key
    processes           \* the SimulationProcess objects of that cache key

vars == <<people, pop, hc, day, total_infectors, total_infections,
          exposed_per_day, interventions, pc, iv_pos, person_pos, exc, applied,
          days, loop_day, df, has_callback, cb_df, cb_calls, infected_on,
          cache, processes>>

ctx_vars == <<people, pop, hc, day, total_infectors, total_infections,
              exposed_per_day, interventions, iv_pos, person_pos, applied,
              infected_on>>

driver_vars == <<days, loop_day, df, has_callback, cb_df, cb_calls>>

process_vars == <<cache, processes>>

\* the variables of the simulation, which start() and run() leave alone
simulation_vars == <<ctx_vars, driver_vars, pc, exc>>

\* the number of SimulationProcess objects made for the cache key
NrProcesses == 2

Processes == 1..NrProcesses

\* the cache without an entry of the key: cache.get returns None
Cache == [finished |-> "None", error |-> "None", results |-> "None"]

\* SimulationProcess.__init__: the position of the object and what it has done
SimulationProcess ==
    [pc |-> "new", finished |-> "None", spawned |-> FALSE, reset |-> FALSE,
     last_results |-> "None", written |-> "None", outcome |-> "None",
     finished_set |-> FALSE]

\* the bundle the operators work on, and its write back
Ctx == [people |-> people, pop |-> pop, hc |-> hc, raised |-> ""]

SetCtx(c) == people' = c.people /\ pop' = c.pop /\ hc' = c.hc

\* Intervention(day, name, value)
Intervention(d, name, value) == [day |-> d, name |-> name, value |-> value]

\* the loop of import-infections from draw k on
RECURSIVE ImportInfections(_, _, _, _, _)
ImportInfections(c, k, count, idxs, ls) ==
    IF k > count THEN c
    ELSE ImportInfections(Person_infect(c, idxs[k], -1, ls[k]),
                          k + 1, count, idxs, ls)

\* idxs and ls are the draws of import-infections: the index and the
\* incubation draw of each imported infection
Context_apply_intervention(c, intervention, idxs, ls) ==
    LET name == intervention.name
        value == intervention.value
    IN  IF name = "test-all-with-symptoms"
        THEN HealthcareSystem_set_testing_mode(c, "ALL_WITH_SYMPTOMS")
        ELSE IF name = "test-only-severe-symptoms"
        THEN HealthcareSystem_set_testing_mode(c, "ONLY_SEVERE_SYMPTOMS")
        ELSE IF name = "test-with-contact-tracing"
        THEN HealthcareSystem_set_testing_mode(c, "ALL_WITH_SYMPTOMS_CT")
        ELSE IF name = "build-new-icu-units"
        THEN [c EXCEPT !.hc.icu_units = @ + value,
                       !.hc.available_icu_units = @ + value]
        ELSE IF name = "build-new-hospital-beds"
        THEN [c EXCEPT !.hc.beds = @ + value,
                       !.hc.available_beds = @ + value]
        ELSE IF name = "import-infections"
        THEN ImportInfections(c, 1, value, idxs, ls)
        ELSE IF name = "limit-mass-gatherings"
        THEN [c EXCEPT !.pop.limit_mass_gatherings = value]
        ELSE IF name = "limit-mobility"
        THEN [c EXCEPT !.pop.population_mobility_factor = 100 - value]
        ELSE Raise(c, "Exception")

\* a loop over the interventions that starts over after each one
DueInterventions_any_position ==
    {k \in 1..Len(interventions) : interventions[k].day = day}

\* the positions of the interventions of today that the loop has not reached
DueInterventions ==
    {k \in iv_pos..Len(interventions) : interventions[k].day = day}

\* the persons the loop over people has not reached and will not skip
InfectedAhead == {i \in Idx : i >= person_pos /\ people[i].is_infected # 0}

Min(S) == CHOOSE x \in S : \A y \in S : x <= y

\* an exception leaves iterate() and its caller
Propagate(c) == pc' = "raised" /\ exc' = c.raised

(***************************************************************************)
(* Context.iterate, lines 642-645: the next intervention of today          *)
(***************************************************************************)
ApplyIntervention ==
    /\ pc = "interventions"
    /\ DueInterventions # {}
    /\ LET k == Min(DueInterventions)
           intervention == interventions[k]
           count == IF intervention.name = "import-infections"
                    THEN intervention.value ELSE 0
       IN  \E idxs \in [1..count -> Idx], ls \in [1..count -> IncubationLognormal] :
             LET c == Context_apply_intervention(Ctx, intervention, idxs, ls)
             IN  /\ SetCtx(c)
                 /\ infected_on' =
                      [i \in Idx |->
                          IF \E n \in 1..count : idxs[n] = i THEN day
                          ELSE infected_on[i]]
                 /\ IF c.raised # ""
                    THEN Propagate(c) /\ UNCHANGED <<iv_pos, applied>>
                    ELSE /\ iv_pos' = k + 1
                         /\ applied' = [applied EXCEPT ![k] = @ + 1]
                         /\ UNCHANGED <<pc, exc>>
    /\ UNCHANGED <<day, total_infectors, total_infections, exposed_per_day,
                   interventions, person_pos>>
    /\ UNCHANGED driver_vars
    /\ UNCHANGED process_vars

(***************************************************************************)
(* Context.iterate, lines 647-651: the tallies are reset and the tests of  *)
(* the queue are run                                                       *)
(***************************************************************************)
RunHealthcare ==
    /\ pc = "interventions"
    /\ DueInterventions = {}
    /\ total_infectors' = 0
    /\ total_infections' = 0
    /\ exposed_per_day' = 0
    /\ LET c == HealthcareSystem_iterate(Ctx)
       IN  /\ SetCtx(c)
           /\ IF c.raised # ""
              THEN Propagate(c) /\ UNCHANGED person_pos
              ELSE pc' = "people" /\ person_pos' = 0 /\ UNCHANGED exc
    /\ UNCHANGED <<day, interventions, iv_pos, applied, infected_on>>
    /\ UNCHANGED driver_vars
    /\ UNCHANGED process_vars

\* what Person.advance of person i will read from the generator
ReadsContacts(i) ==
    /\ people[i].state \in {"INCUBATION", "ILLNESS"}
    /\ people[i].was_detected = 0
    /\ Disease_get_source_infectiousness(DiseaseParams, people[i]) # 0

ReadsSeverity(i) == people[i].state = "INCUBATION" /\ people[i].days_left = 1

ReadsTestChance(i) == ReadsSeverity(i) /\ hc.testing_mode = "ONLY_SEVERE_SYMPTOMS"

ReadsDeath(i) ==
    /\ people[i].days_left = 1
    /\ \/ people[i].state \in {"HOSPITALIZED", "IN_ICU"}
       \/ /\ people[i].state = "ILLNESS"
          /\ people[i].symptom_severity \in {"SEVERE", "CRITICAL"}

Drawn(reads, S) == IF reads THEN S ELSE {0}

\* the loop over people without the test of the state ILLNESS
AdvancePerson_counts_everyone ==
    /\ pc = "people"
    /\ InfectedAhead # {}
    /\ LET i == Min(InfectedAhead)
       IN  \E l \in Drawn(ReadsContacts(i), ContactsLognormal),
              sev \in Drawn(ReadsSeverity(i), RandomValues),
              test \in Drawn(ReadsTestChance(i), RandomValues),
              death \in Drawn(ReadsDeath(i), RandomValues) :
             LET n == IF ReadsContacts(i)
                      THEN Disease_people_exposed(Ctx, i, l) ELSE 0
             IN  \E targets \in [1..n -> Idx], vals \in [1..n -> RandomValues],
                    ls \in [1..n -> IncubationLognormal] :
                   LET d == [l |-> l, targets |-> targets, vals |-> vals,
                             ls |-> ls, sev |-> sev, test |-> test,
                             death |-> death]
                       c == Person_advance(Ctx, i, d)
                       person == c.people[i]
                   IN  /\ SetCtx(c)
                       /\ infected_on' =
                            [j \in Idx |->
                                IF c.people[j].is_infected = 0 THEN -1
                                ELSE IF people[j].is_infected = 0 THEN day
                                ELSE infected_on[j]]
                       /\ IF c.raised # ""
                          THEN /\ Propagate(c)
                               /\ UNCHANGED <<person_pos, exposed_per_day,
                                              total_infectors, total_infections>>
                          ELSE /\ person_pos' = i + 1
                               /\ exposed_per_day' =
                                    exposed_per_day + person.other_people_exposed_today
                               /\ total_infectors' = total_infectors + 1
                               /\ total_infections' =
                                    total_infections + person.other_people_infected
                               /\ UNCHANGED <<pc, exc>>
    /\ UNCHANGED <<day, interventions, iv_pos, applied>>
    /\ UNCHANGED driver_vars
    /\ UNCHANGED process_vars

(***************************************************************************)
(* Context.iterate, lines 654-666: the next infected person advances       *)
(***************************************************************************)
AdvancePerson ==
    /\ pc = "people"
    /\ InfectedAhead # {}
    /\ LET i == Min(InfectedAhead)
       IN  \E l \in Drawn(ReadsContacts(i), ContactsLognormal),
              sev \in Drawn(ReadsSeverity(i), RandomValues),
              test \in Drawn(ReadsTestChance(i), RandomValues),
              death \in Drawn(ReadsDeath(i), RandomValues) :
             LET n == IF ReadsContacts(i)
                      THEN Disease_people_exposed(Ctx, i, l) ELSE 0
             IN  \E targets \in [1..n -> Idx], vals \in [1..n -> RandomValues],
                    ls \in [1..n -> IncubationLognormal] :
                   LET d == [l |-> l, targets |-> targets, vals |-> vals,
                             ls |-> ls, sev |-> sev, test |-> test,
                             death |-> death]
                       c == Person_advance(Ctx, i, d)
                       person == c.people[i]
                   IN  /\ SetCtx(c)
                       /\ infected_on' =
                            [j \in Idx |->
                                IF c.people[j].is_infected = 0 THEN -1
                                ELSE IF people[j].is_infected = 0 THEN day
                                ELSE infected_on[j]]
                       /\ IF c.raised # ""
                          THEN /\ Propagate(c)
                               /\ UNCHANGED <<person_pos, exposed_per_day,
                                              total_infectors, total_infections>>
                          ELSE /\ person_pos' = i + 1
                               /\ exposed_per_day' =
                                    exposed_per_day + person.other_people_exposed_today
                               /\ total_infectors' =
                                    IF person.state = "ILLNESS"
                                    THEN total_infectors + 1 ELSE total_infectors
                               /\ total_infections' =
                                    IF person.state = "ILLNESS"
                                    THEN total_infections + person.other_people_infected
                                    ELSE total_infections
                               /\ UNCHANGED <<pc, exc>>
    /\ UNCHANGED <<day, interventions, iv_pos, applied>>
    /\ UNCHANGED driver_vars
    /\ UNCHANGED process_vars

(***************************************************************************)
(* Context.iterate, line 668: the loop over people is over                 *)
(***************************************************************************)
EndIterate ==
    /\ pc = "people"
    /\ InfectedAhead = {}
    /\ day' = day + 1
    /\ pc' = "returned"
    /\ UNCHANGED <<people, pop, hc, total_infectors, total_infections,
                   exposed_per_day, interventions, iv_pos, person_pos, exc,
                   applied, infected_on>>
    /\ UNCHANGED driver_vars
    /\ UNCHANGED process_vars

(***************************************************************************)
(* A caller of the Context: iterate() is called again and again            *)
(***************************************************************************)
CallIterate ==
    /\ pc \in {"start", "returned"}
    /\ day < MaxDays
    /\ pc' = "interventions"
    /\ iv_pos' = 1
    /\ UNCHANGED <<people, pop, hc, day, total_infectors, total_infections,
                   exposed_per_day, interventions, person_pos, exc, applied,
                   infected_on>>
    /\ UNCHANGED driver_vars
    /\ UNCHANGED process_vars

\* the runs of the Context: the capacities and the intervention list
Runs ==
    {[beds |-> MaxCapacity, icu_units |-> MaxCapacity, interventions |->
        <<Intervention(0, "test-all-with-symptoms", 0),
          Intervention(0, "import-infections", 1),
          Intervention(LateDay, "import-infections", 1)>>],
     [beds |-> 0, icu_units |-> 0, interventions |->
        <<Intervention(0, "test-with-contact-tracing", 0),
          Intervention(0, "import-infections", 1),
          Intervention(LateDay, "build-new-hospital-beds", 1),
          Intervention(LateDay, "build-new-icu-units", 1)>>],
     [beds |-> 0, icu_units |-> 0, interventions |->
        <<Intervention(0, "test-only-severe-symptoms", 0),
          Intervention(0, "import-infections", 2)>>],
     [beds |-> MaxCapacity, icu_units |-> 0, interventions |->
        <<Intervention(0, "import-infections", 1)>>],
     [beds |-> MaxCapacity, icu_units |-> MaxCapacity, interventions |->
        <<Intervention(0, "limit-mobility", 100),
          Intervention(0, "test-all-with-symptoms", 0),
          Intervention(0, "import-infections", 1)>>],
     [beds |-> MaxCapacity, icu_units |-> MaxCapacity, interventions |->
        <<Intervention(0, "limit-mass-gatherings", 1),
          Intervention(0, "test-all-with-symptoms", 0),
          Intervention(0, "import-infections", 1)>>],
     [beds |-> 0, icu_units |-> MaxCapacity, interventions |->
        <<Intervention(0, "test-all-with-symptoms", 0),
          Intervention(0, "import-infections", 1),
          Intervention(1, "close-schools", 0)>>]}

\* Context.__init__ and the construction in simulate_individuals, lines 734-772
InitContext(runs) ==
    /\ people = create_population
    /\ pop = Population
    /\ \E run \in runs :
         /\ hc = HealthcareSystem(run.beds, run.icu_units)
         /\ interventions = run.interventions
         /\ applied = [k \in 1..Len(run.interventions) |-> 0]
    /\ day = 0
    /\ total_infectors = 0
    /\ total_infections = 0
    /\ exposed_per_day = 0
    /\ pc = "start"
    /\ iv_pos = 1
    /\ person_pos = 0
    /\ exc = ""
    /\ infected_on = [i \in Idx |-> -1]

Init ==
    /\ InitContext(Runs)
    /\ days = 0
    /\ loop_day = 0
    /\ df = <<>>
    /\ has_callback = FALSE
    /\ cb_df = <<>>
    /\ cb_calls = 0
    /\ cache = Cache
    /\ processes = [p \in Processes |-> SimulationProcess]

Next ==
    \/ CallIterate
    \/ ApplyIntervention
    \/ RunHealthcare
    \/ AdvancePerson
    \/ EndIterate

Spec == Init /\ [][Next]_vars

(***************************************************************************)
(* simulate_individuals: the driver loop                                   *)
(***************************************************************************)
RECURSIVE SumAges(_, _)
SumAges(f, a) == IF a < 0 THEN 0 ELSE f[a] + SumAges(f, a - 1)

Total(f) == SumAges(f, Len(AgeCounts) - 1)

\* Context.generate_state: r is total_infections / total_infectors, kept as
\* the pair of numerator and denominator
Context_generate_state ==
    [infected |-> pop.infected, susceptible |-> pop.susceptible,
     recovered |-> pop.recovered, hospitalized |-> pop.hospitalized,
     detected |-> pop.detected, all_detected |-> pop.all_detected,
     dead |-> pop.dead,
     available_icu_units |-> hc.available_icu_units,
     available_hospital_beds |-> hc.available_beds,
     r |-> IF total_infectors # 0 THEN <<total_infections, total_infectors>>
           ELSE <<0, 1>>,
     exposed_per_day |-> exposed_per_day,
     tests_run_per_day |-> hc.tests_run_per_day]

\* the row rec of lines 785-790 (sim_time_ms, a wall clock reading, is left out)
Rec(state) ==
    [susceptible |-> Total(state.susceptible), infected |-> Total(state.infected),
     all_detected |-> Total(state.all_detected),
     hospitalized |-> Total(state.hospitalized),
     dead |-> Total(state.dead), recovered |-> Total(state.recovered),
     hospital_beds |-> state.available_hospital_beds,
     icu_units |-> state.available_icu_units,
     r |-> state.r,
     exposed_per_day |-> state.exposed_per_day,
     tests_run_per_day |-> state.tests_run_per_day]

\* lines 782-794: the head of the loop, the snapshot and its row
DriverGenerateState ==
    /\ pc \in {"start", "returned"}
    /\ LET d == IF pc = "start" THEN 0 ELSE loop_day + 1
       IN  IF d < days
           THEN /\ df' = Append(df, Rec(Context_generate_state))
                /\ loop_day' = d
                /\ pc' = "step_callback"
           ELSE /\ pc' = "done"
                /\ UNCHANGED <<df, loop_day>>
    /\ UNCHANGED <<days, has_callback, cb_df, cb_calls, exc>>
    /\ UNCHANGED ctx_vars
    /\ UNCHANGED process_vars

\* a driver that notes the false value and goes on to context.iterate()
DriverStepCallback_goes_on ==
    /\ pc = "step_callback"
    /\ IF ~has_callback
       THEN /\ pc' = "interventions"
            /\ iv_pos' = 1
            /\ UNCHANGED <<cb_df, cb_calls, exc>>
       ELSE \E ret \in BOOLEAN :
              /\ cb_df' = df
              /\ cb_calls' = cb_calls + 1
              /\ pc' = "interventions"
              /\ iv_pos' = 1
              /\ exc' = IF ret THEN exc ELSE "ExecutionInterrupted"
    /\ UNCHANGED <<days, loop_day, df, has_callback>>
    /\ UNCHANGED <<people, pop, hc, day, total_infectors, total_infections,
                   exposed_per_day, interventions, person_pos, applied,
                   infected_on>>
    /\ UNCHANGED process_vars

\* lines 796-800: the callback is given df; a false value raises
\* ExecutionInterrupted, otherwise context.iterate() is entered
DriverStepCallback ==
    /\ pc = "step_callback"
    /\ IF ~has_callback
       THEN /\ pc' = "interventions"
            /\ iv_pos' = 1
            /\ UNCHANGED <<cb_df, cb_calls, exc>>
       ELSE \E ret \in BOOLEAN :
              /\ cb_df' = df
              /\ cb_calls' = cb_calls + 1
              /\ IF ret
                 THEN pc' = "interventions" /\ iv_pos' = 1 /\ UNCHANGED exc
                 ELSE pc' = "raised" /\ exc' = "ExecutionInterrupted"
                      /\ UNCHANGED iv_pos
    /\ UNCHANGED <<days, loop_day, df, has_callback>>
    /\ UNCHANGED <<people, pop, hc, day, total_infectors, total_infections,
                   exposed_per_day, interventions, person_pos, applied,
                   infected_on>>
    /\ UNCHANGED process_vars

\* the runs of simulate_individuals
DriverRuns ==
    {[beds |-> MaxCapacity, icu_units |-> MaxCapacity, interventions |->
        <<Intervention(0, "test-all-with-symptoms", 0),
          Intervention(0, "import-infections", 1),
          Intervention(1, "build-new-icu-units", 1)>>],
     [beds |-> 0, icu_units |-> 0, interventions |->
        <<Intervention(0, "test-with-contact-tracing", 0),
          Intervention(0, "import-infections", 2),
          Intervention(1, "limit-mobility", 50)>>],
     [beds |-> MaxCapacity, icu_units |-> 0, interventions |->
        <<Intervention(0, "import-infections", 1)>>],
     [beds |-> MaxCapacity, icu_units |-> MaxCapacity, interventions |->
        <<Intervention(0, "test-all-with-symptoms", 0),
          Intervention(0, "import-infections", 1),
          Intervention(1, "close-schools", 0)>>],
     [beds |-> MaxCapacity, icu_units |-> MaxCapacity, interventions |->
        <<Intervention(0, "test-all-with-symptoms", 0),
          Intervention(0, "import-infections", 1),
          Intervention(SimulationDays, "close-schools", 0)>>],
     [beds |-> MaxCapacity, icu_units |-> MaxCapacity, interventions |->
        <<Intervention(0, "test-only-severe-symptoms", 0),
          Intervention(0, "import-infections", 1),
          Intervention(1, "limit-mobility", 150)>>]}

InitDriver ==
    /\ InitContext(DriverRuns)
    /\ days = SimulationDays
    /\ loop_day = 0
    /\ df = <<>>
    /\ has_callback \in BOOLEAN
    /\ cb_df = <<>>
    /\ cb_calls = 0
    /\ cache = Cache
    /\ processes = [p \in Processes |-> SimulationProcess]

NextDriver ==
    \/ DriverGenerateState
    \/ DriverStepCallback
    \/ ApplyIntervention
    \/ RunHealthcare
    \/ AdvancePerson
    \/ EndIterate

SpecDriver == InitDriver /\ [][NextDriver]_vars

(***************************************************************************)
(* HealthcareSystem.iterate with contact tracing, on the infection graphs  *)
(* of a larger population: one person is in the queue, is tested and       *)
(* detected, and its contacts are traced                                   *)
(***************************************************************************)
\* the number of persons of the graphs
TracePeople == 5

\* the largest number of persons that queue_for_testing refuses
MaxBlocked == 1

TraceIdx == 0..(TracePeople - 1)

\* the infectees list of person i when infector[j] = i for the persons j it
\* infected, from person j on: expose_others leaves each of them twice
RECURSIVE Infectees(_, _, _)
Infectees(infector, i, j) ==
    IF j >= TracePeople THEN <<>>
    ELSE (IF infector[j] = i THEN <<j, j>> ELSE <<>>)
             \o Infectees(infector, i, j + 1)

\* the persons of an infection graph: every person is infected, the persons
\* of `blocked` are dead, detected or queued (kind), person s is ill, in the
\* queue and not detected
TracePerson(infector, blocked, kind, s, i) ==
    [Person(0) EXCEPT
        !.is_infected = IF i \in blocked /\ kind = "dead" THEN 0 ELSE 1,
        !.has_immunity = IF i \in blocked /\ kind = "dead" THEN 1 ELSE 0,
        !.state = IF i \in blocked /\ kind = "dead" THEN "DEAD"
                  ELSE IF i = s THEN "ILLNESS" ELSE "INCUBATION",
        !.days_left = IF i \in blocked /\ kind = "dead" THEN 0
                      ELSE IF i = s THEN Disease_get_illness_days ELSE 14,
        !.symptom_severity = IF i = s THEN "MILD" ELSE "ASYMPTOMATIC",
        !.was_detected = IF i \in blocked /\ kind = "detected" THEN 1 ELSE 0,
        !.queued_for_testing =
            IF i = s \/ (i \in blocked /\ kind = "queued") THEN 1 ELSE 0,
        !.infector = infector[i],
        !.infectees = Infectees(infector, i, 0)]

InitTracing ==
    /\ \E infector \in [TraceIdx -> -1..(TracePeople - 2)],
          blocked \in SUBSET TraceIdx,
          kind \in {"dead", "detected", "queued"},
          s \in TraceIdx :
         /\ \A i \in TraceIdx : infector[i] < i
         /\ Cardinality(blocked) <= MaxBlocked
         /\ s \notin blocked
         /\ people = [i \in TraceIdx |->
                         TracePerson(infector, blocked, kind, s, i)]
         /\ hc = [HealthcareSystem(0, 0) EXCEPT
                     !.testing_mode = "ALL_WITH_SYMPTOMS_CT",
                     !.testing_queue = <<s>>]
    /\ pop = [Population EXCEPT !.susceptible = [a \in Ages |-> 0],
                                !.infected = [a \in Ages |-> TracePeople]]
    /\ interventions = <<>>
    /\ applied = <<>>
    /\ infected_on = [i \in TraceIdx |-> 0]
    /\ day = 1
    /\ total_infectors = 0
    /\ total_infections = 0
    /\ exposed_per_day = 0
    /\ pc = "interventions"
    /\ iv_pos = 1
    /\ person_pos = 0
    /\ exc = ""
    /\ days = 0
    /\ loop_day = 0
    /\ df = <<>>
    /\ has_callback = FALSE
    /\ cb_df = <<>>
    /\ cb_calls = 0
    /\ cache = Cache
    /\ processes = [p \in Processes |-> SimulationProcess]

\* Context.iterate, lines 647-651, on such a population; the run is followed
\* up to the end of hc.iterate
NextTracing == RunHealthcare

SpecTracing == InitTracing /\ [][NextTracing]_vars

(***************************************************************************)
(* SimulationProcess: RunSimulation.mutate makes a process object for the  *)
(* cache key and calls start(); the worker runs run().  All the objects    *)
(* here have the same cache key.  Each cache.get and cache.set is one      *)
(* step, and the steps of different objects interleave.  The entries are   *)
(* followed within their expiration time.                                  *)
(***************************************************************************)
\* cache.set(key, val): the entry of the key becomes val
CacheSet(entry, val) == cache' = [cache EXCEPT ![entry] = val]

\* the position of the object p moves to pos
Goto(p, pos) == [processes EXCEPT ![p].pc = pos]

\* start(), lines 24-27: reads the finished entry and returns when there is
\* one
StartGetFinished(p) ==
    /\ processes[p].pc = "new"
    /\ UNCHANGED simulation_vars
    /\ processes' = [processes EXCEPT
          ![p].finished = cache.finished,
          ![p].pc = IF cache.finished # "None" THEN "returned"
                    ELSE "set_error"]
    /\ UNCHANGED cache

\* start(), line 30: cache.set of the error entry to None
StartSetError(p) ==
    /\ processes[p].pc = "set_error"
    /\ UNCHANGED simulation_vars
    /\ CacheSet("error", "None")
    /\ processes' = [processes EXCEPT ![p].reset = TRUE,
                                      ![p].pc = "set_finished"]

\* start(), line 31: cache.set of the finished entry to False
StartSetFinished(p) ==
    /\ processes[p].pc = "set_finished"
    /\ UNCHANGED simulation_vars
    /\ CacheSet("finished", "False")
    /\ processes' = [processes EXCEPT ![p].reset = TRUE, ![p].pc = "spawn"]

\* start(), line 32: super().start() spawns the worker, which enters run()
\* and sets last_results to None, line 35
StartSpawn(p) ==
    /\ processes[p].pc = "spawn"
    /\ UNCHANGED simulation_vars
    /\ processes' = [processes EXCEPT ![p].spawned = TRUE,
                                      ![p].last_results = "None",
                                      ![p].pc = "run"]
    /\ UNCHANGED cache

\* step_callback, lines 38-46, called by the simulation with force False:
\* it writes the results when none were written or more than half a second
\* went by (elapsed)
step_callback(p, elapsed) ==
    /\ processes[p].pc = "run"
    /\ UNCHANGED simulation_vars
    /\ IF processes[p].last_results = "None" \/ elapsed
       THEN /\ CacheSet("results", "partial")
            /\ processes' = [processes EXCEPT ![p].last_results = "set",
                                              ![p].written = "partial"]
       ELSE UNCHANGED <<cache, processes>>

\* the outcomes of the call of simulate_individuals, lines 48-56
Outcomes == {"returned", "ExecutionInterrupted", "Exception"}

\* run(), lines 48-49: the call of simulate_individuals ends
RunSimulate(p, outcome) ==
    /\ processes[p].pc = "run"
    /\ UNCHANGED simulation_vars
    /\ processes' = [processes EXCEPT
          ![p].outcome = outcome,
          ![p].pc = CASE outcome = "returned" -> "else"
                      [] outcome = "ExecutionInterrupted" -> "interrupted"
                      [] OTHER -> "failed"]
    /\ UNCHANGED cache

\* run(), lines 56-58: step_callback with force True writes the results
RunElse(p) ==
    /\ processes[p].pc = "else"
    /\ UNCHANGED simulation_vars
    /\ CacheSet("results", "final")
    /\ processes' = [processes EXCEPT ![p].last_results = "set",
                                      ![p].written = "final",
                                      ![p].pc = "finish"]

\* a run() that leaves at the ExecutionInterrupted handler, past line 60
RunInterrupted_leaves(p) ==
    /\ processes[p].pc = "interrupted"
    /\ UNCHANGED simulation_vars
    /\ processes' = Goto(p, "done")
    /\ UNCHANGED cache

\* run(), lines 50-51: ExecutionInterrupted is logged
RunInterrupted(p) ==
    /\ processes[p].pc = "interrupted"
    /\ UNCHANGED simulation_vars
    /\ processes' = Goto(p, "finish")
    /\ UNCHANGED cache

\* run(), lines 52-53: another exception, cache.set of the finished entry
RunExceptFinished(p) ==
    /\ processes[p].pc = "failed"
    /\ UNCHANGED simulation_vars
    /\ CacheSet("finished", "True")
    /\ processes' = [processes EXCEPT ![p].finished_set = TRUE,
                                      ![p].pc = "failed_error"]

\* run(), lines 54-55: cache.set of the error entry to the message, and
\* the exception is raised again
RunExceptError(p) ==
    /\ processes[p].pc = "failed_error"
    /\ UNCHANGED simulation_vars
    /\ CacheSet("error", "message")
    /\ processes' = Goto(p, "raised")

\* run(), line 60: cache.set of the finished entry to True
RunFinish(p) ==
    /\ processes[p].pc = "finish"
    /\ UNCHANGED simulation_vars
    /\ CacheSet("finished", "True")
    /\ processes' = [processes EXCEPT ![p].finished_set = TRUE,
                                      ![p].pc = "done"]

\* the construction of the simulation, not run here
ProcessRuns == {[beds |-> 0, icu_units |-> 0, interventions |-> <<>>]}

InitProcess ==
    /\ InitContext(ProcessRuns)
    /\ days = 0
    /\ loop_day = 0
    /\ df = <<>>
    /\ has_callback = TRUE
    /\ cb_df = <<>>
    /\ cb_calls = 0
    /\ cache = Cache
    /\ processes = [p \in Processes |-> SimulationProcess]

NextProcess ==
    \E p \in Processes :
       \/ StartGetFinished(p)
       \/ StartSetError(p)
       \/ StartSetFinished(p)
       \/ StartSpawn(p)
       \/ \E elapsed \in BOOLEAN : step_callback(p, elapsed)
       \/ \E outcome \in Outcomes : RunSimulate(p, outcome)
       \/ RunElse(p)
       \/ RunInterrupted(p)
       \/ RunExceptFinished(p)
       \/ RunExceptError(p)
       \/ RunFinish(p)

SpecProcess == InitProcess /\ [][NextProcess]_vars

(***************************************************************************)
(* The properties                                                          *)
(***************************************************************************)
InfectedStates == {"INCUBATION", "ILLNESS", "HOSPITALIZED", "IN_ICU"}

\* an import-infections intervention of the list has been applied late in the run
LateImportApplied ==
    /\ day > LateDay
    /\ \E k \in 1..Len(interventions) :
         /\ interventions[k].name = "import-infections"
         /\ interventions[k].day = LateDay

\* C1: at every day-end, for every age a, susceptible[a] + infected[a] +
\* recovered[a] + dead[a] equals age_counts[a]
C1_CountersSumToAgeCounts ==
    pc = "returned" =>
        \A a \in Ages :
            pop.susceptible[a] + pop.infected[a] + pop.recovered[a] + pop.dead[a]
                = AgeCounts[a + 1]

\* a day-end after the late import at which persons have died and recovered
C1_Witness ==
    /\ pc = "returned"
    /\ LateImportApplied
    /\ \E a \in Ages : pop.dead[a] > 0
    /\ \E a \in Ages : pop.recovered[a] > 0

\* C2: 0 <= available_beds <= beds and 0 <= available_icu_units <= icu_units
\* in every state, and the assertions of release() and release_from_icu()
\* never fail
C2_AvailableWithinTotals ==
    /\ 0 <= hc.available_beds /\ hc.available_beds <= hc.beds
    /\ 0 <= hc.available_icu_units /\ hc.available_icu_units <= hc.icu_units
    /\ exc # "AssertionError"

\* an ICU unit was built during the run, and a person who was taken to it
\* (a critical case recovers in no other way) has been released from it
C2_Witness ==
    /\ \E k \in 1..Len(interventions) : interventions[k].name = "build-new-icu-units"
    /\ day > LateDay
    /\ hc.available_icu_units = hc.icu_units
    /\ \E i \in Idx : /\ people[i].symptom_severity = "CRITICAL"
                      /\ people[i].state = "RECOVERED"

\* the transitions of a person's state enumerated in the specification
Transitions ==
    {<<"SUSCEPTIBLE", "INCUBATION">>, <<"INCUBATION", "ILLNESS">>,
     <<"ILLNESS", "HOSPITALIZED">>, <<"ILLNESS", "IN_ICU">>,
     <<"ILLNESS", "RECOVERED">>, <<"ILLNESS", "DEAD">>,
     <<"HOSPITALIZED", "RECOVERED">>, <<"HOSPITALIZED", "DEAD">>,
     <<"IN_ICU", "RECOVERED">>, <<"IN_ICU", "DEAD">>}

\* C3: every change of a person's state is one of the enumerated transitions;
\* RECOVERED and DEAD are never left and nobody returns to SUSCEPTIBLE
C3_OnlyEnumeratedTransitions ==
    [][\A i \in Idx :
          \/ people'[i].state = people[i].state
          \/ <<people[i].state, people'[i].state>> \in Transitions]_vars

\* the step about to be taken applies an import-infections intervention
ImportIsNext ==
    /\ pc = "interventions"
    /\ DueInterventions # {}
    /\ interventions[Min(DueInterventions)].name = "import-infections"

\* the persons of age a that the step takes from SUSCEPTIBLE to INCUBATION
NewlyInfected(a) ==
    {i \in Idx : /\ people[i].age = a
                 /\ people[i].state = "SUSCEPTIBLE"
                 /\ people'[i].state = "INCUBATION"}

\* C4: an import-infections intervention infects only persons that are
\* SUSCEPTIBLE when they are drawn: a person in another state, or drawn a
\* second time, is left unchanged and no counter changes for them
C4_ImportOnlySusceptible ==
    [][ImportIsNext =>
          /\ \A i \in Idx : people[i].state # "SUSCEPTIBLE" => people'[i] = people[i]
          /\ \A a \in Ages :
               /\ pop.susceptible'[a] = pop.susceptible[a] - Cardinality(NewlyInfected(a))
               /\ pop.infected'[a] = pop.infected[a] + Cardinality(NewlyInfected(a))]_vars

\* C5: no per-age population counter is ever negative
C5_CountersNonNegative ==
    \A a \in Ages :
        /\ pop.susceptible[a] >= 0 /\ pop.infected[a] >= 0
        /\ pop.detected[a] >= 0 /\ pop.all_detected[a] >= 0
        /\ pop.hospitalized[a] >= 0 /\ pop.dead[a] >= 0
        /\ pop.recovered[a] >= 0

\* C6: for every person, is_infected is set if and only if the state is one
\* of INCUBATION, ILLNESS, HOSPITALIZED, IN_ICU
C6_InfectedIffInfectedState ==
    \A i \in Idx : (people[i].is_infected # 0) <=> (people[i].state \in InfectedStates)

\* a person has died, and another one is in hospital
C6_Witness ==
    /\ \E i \in Idx : people[i].state = "DEAD"
    /\ \E i \in Idx : people[i].state \in {"HOSPITALIZED", "IN_ICU"}

\* the rows of df are set once and not changed afterwards
RowsKept == \A k \in 1..Len(df) : Len(df') >= k /\ df'[k] = df[k]

\* C8: when the step callback returns a false value after the snapshot of
\* day d, the run ends with ExecutionInterrupted, iterate() is not called
\* again, and the rows of days 0..d are unchanged and in the caller's hands
C8_InterruptKeepsRows ==
    /\ [](exc = "ExecutionInterrupted" =>
            /\ pc = "raised"
            /\ day = loop_day
            /\ Len(df) = loop_day + 1
            /\ df[Len(df)] = Rec(Context_generate_state)
            /\ cb_df = df)
    /\ [][RowsKept]_vars

\* the callback has returned a false value after the snapshot of a later day
\* on which a person is infected
C8_Witness ==
    /\ exc = "ExecutionInterrupted"
    /\ loop_day >= 1
    /\ df[Len(df)].infected > 0

KnownInterventions ==
    {"test-all-with-symptoms", "test-only-severe-symptoms",
     "test-with-contact-tracing", "build-new-icu-units",
     "build-new-hospital-beds", "import-infections", "limit-mass-gatherings",
     "limit-mobility"}

\* an intervention of unknown type, or a percentage above 100
InvalidIntervention(iv) ==
    \/ iv.name \notin KnownInterventions
    \/ iv.name = "limit-mobility" /\ iv.value > 100

\* C9: an intervention list with an unknown type or an out-of-range parameter
\* is rejected at construction: no iterate() runs and no snapshot is emitted
C9_InvalidListNeverStarts ==
    (\E k \in 1..Len(interventions) : InvalidIntervention(interventions[k])) =>
        /\ pc \in {"start", "raised"}
        /\ day = 0
        /\ df = <<>>

\* C10: in each of the N days iterate() is called first, then
\* generate_state(), then the callback, so that the row the callback sees for
\* a day is the snapshot after that day's iterate(); N iterate() calls and N
\* callback calls happen in an uncancelled run
C10_IterateThenSnapshot ==
    /\ pc = "step_callback" => day = loop_day + 1
    /\ pc = "done" => day = days /\ (has_callback => cb_calls = days)

\* the step about to be taken applies a build-new-icu-units intervention
BuildIcuIsNext ==
    /\ pc = "interventions"
    /\ DueInterventions # {}
    /\ interventions[Min(DueInterventions)].name = "build-new-icu-units"

\* C11: a build-new-icu-units(n) intervention of day D raises icu_units and
\* available_icu_units by exactly n, and it does so before the row of day D
\* is recorded (rows 0..D-1 are in df), so that the snapshot of day D shows it
C11_BuildIcuInSnapshotOfDay ==
    [][BuildIcuIsNext =>
          LET intervention == interventions[Min(DueInterventions)]
          IN  /\ hc.icu_units' = hc.icu_units + intervention.value
              /\ hc.available_icu_units' =
                    hc.available_icu_units + intervention.value
              /\ Len(df) = intervention.day]_vars

\* the positions of the interventions whose day is today
DueToday == {k \in 1..Len(interventions) : interventions[k].day = day}

\* the step applies the intervention at position k
Applies(k) == applied'[k] = applied[k] + 1

\* C12: on every day the interventions of that day are applied in list order,
\* all of them before the tests of the healthcare system run and before any
\* person advances; no intervention is applied twice, and at the end of an
\* N-day run each intervention with a day in 0..N-1 has been applied once
C12_DueInterventionsFirst ==
    /\ [](\A k \in 1..Len(interventions) : applied[k] <= 1)
    /\ [](pc = "people" => \A k \in DueToday : applied[k] = 1)
    /\ [](pc = "done" =>
            \A k \in 1..Len(interventions) :
                applied[k] = IF interventions[k].day \in 0..(days - 1)
                             THEN 1 ELSE 0)
    /\ [][/\ \A k \in 1..Len(interventions) :
                Applies(k) =>
                    /\ pc = "interventions"
                    /\ k \in DueToday
                    /\ \A j \in DueToday : applied[j] = IF j < k THEN 1 ELSE 0
          /\ (pc = "interventions" /\ hc.tests_run_per_day' # hc.tests_run_per_day)
                => \A k \in DueToday : applied[k] = 1
          /\ (\E i \in Idx : people'[i] # people[i]) /\ applied' = applied
                => \A k \in DueToday : applied[k] = 1]_vars

\* a run of N days has ended in which two interventions of day 0 and one of a
\* later day were applied
C12_Witness ==
    /\ pc = "done"
    /\ \E j, k, m \in 1..Len(interventions) :
         /\ j < k
         /\ interventions[j].day = 0 /\ interventions[k].day = 0
         /\ interventions[m].day > 0
         /\ applied[j] = 1 /\ applied[k] = 1 /\ applied[m] = 1

\* the persons in a testing queue
Queued(queue) == {queue[k] : k \in 1..Len(queue)}

\* the step about to be taken is HealthcareSystem.iterate
HealthcareIterates == pc = "interventions" /\ DueInterventions = {}

\* C13: HealthcareSystem.iterate tests the persons of the queue it finds and
\* nobody else: a person whom contact tracing queues while the tests run is
\* in the new queue, untested; a person queued by seek_testing while the
\* persons advance waits in the queue, no test runs before the next iterate
C13_QueuedTodayTestedTomorrow ==
    [][/\ HealthcareIterates =>
             /\ hc.tests_run_per_day' = Len(hc.testing_queue)
             /\ Queued(hc.testing_queue') \cap Queued(hc.testing_queue) = {}
             /\ \A i \in Idx \ Queued(hc.testing_queue) :
                    people'[i].was_detected = people[i].was_detected
       /\ pc = "people" =>
             /\ hc.tests_run_per_day' = hc.tests_run_per_day
             /\ Len(hc.testing_queue') >= Len(hc.testing_queue)
             /\ SubSeq(hc.testing_queue', 1, Len(hc.testing_queue)) = hc.testing_queue
             /\ \A i \in Queued(hc.testing_queue') \ Queued(hc.testing_queue) :
                    people'[i].was_detected = people[i].was_detected]_vars

\* the tests of today have run and contact tracing has queued a person for
\* tomorrow
C13_Witness ==
    /\ pc = "people"
    /\ person_pos = 0
    /\ hc.testing_mode = "ALL_WITH_SYMPTOMS_CT"
    /\ hc.tests_run_per_day > 0
    /\ hc.testing_queue # <<>>

\* the run has no hospital beds and no ICU units and builds none
NoCapacity ==
    /\ hc.beds = 0
    /\ hc.icu_units = 0
    /\ \A k \in 1..Len(interventions) :
         interventions[k].name \notin {"build-new-hospital-beds",
                                       "build-new-icu-units"}

\* the step is the advance of person i on the last day of its illness
IllnessEnds(i) ==
    /\ pc = "people"
    /\ people[i].state = "ILLNESS"
    /\ people[i].days_left = 1
    /\ people'[i].state # "ILLNESS"

\* C14 as stated: without beds and ICU units every person whose illness ends
\* SEVERE or CRITICAL dies, and nobody enters HOSPITALIZED or IN_ICU
C14_NoCapacityEveryoneDies ==
    [][NoCapacity =>
          \A i \in Idx :
              /\ people'[i].state \notin {"HOSPITALIZED", "IN_ICU"}
              /\ (IllnessEnds(i) /\ people[i].symptom_severity \in {"SEVERE", "CRITICAL"})
                    => people'[i].state = "DEAD"]_vars

\* C14 amended: without beds and ICU units a person whose illness ends
\* CRITICAL dies; a person whose illness ends SEVERE takes the no-beds path,
\* on which it dies or recovers (the draw of p_hospital_death_no_beds); both
\* are detected, no capacity changes, nobody enters HOSPITALIZED or IN_ICU
C14_NoCapacityNoBedsPath ==
    [][NoCapacity =>
          \A i \in Idx :
              /\ people'[i].state \notin {"HOSPITALIZED", "IN_ICU"}
              /\ (IllnessEnds(i) /\ people[i].symptom_severity = "CRITICAL")
                    => people'[i].state = "DEAD" /\ people'[i].was_detected = 1
              /\ (IllnessEnds(i) /\ people[i].symptom_severity = "SEVERE")
                    => /\ people'[i].state \in {"DEAD", "RECOVERED"}
                       /\ people'[i].was_detected = 1
              /\ IllnessEnds(i) => hc' = hc]_vars

\* without capacity, a severe case has survived the no-beds path and a
\* critical case has died
C14_Witness ==
    /\ NoCapacity
    /\ \E i \in Idx : /\ people[i].symptom_severity = "SEVERE"
                      /\ people[i].state = "RECOVERED"
    /\ \E i \in Idx : /\ people[i].symptom_severity = "CRITICAL"
                      /\ people[i].state = "DEAD"

\* C15: while population_mobility_factor is 0 (limit-mobility 100 is the
\* latest one applied), contacts_per_day returns 0 for every person and every
\* draw, no step calls expose_others (nobody's exposures of the day, infectees
\* or infections grow), and a new infection comes only from import-infections
C15_NoMobilityNoSpread ==
    /\ [](pop.population_mobility_factor = 0 =>
            \A i \in Idx, l \in ContactsLognormal :
                /\ Population_contacts_per_day(Ctx, i, l, 100, 100) = 0
                /\ Population_contacts_per_day(Ctx, i, l, 50, 5) = 0)
    /\ [][pop.population_mobility_factor = 0 =>
            /\ \A i \in Idx :
                  /\ people'[i].other_people_exposed_today
                        \in {0, people[i].other_people_exposed_today}
                  /\ people'[i].infectees = people[i].infectees
                  /\ people'[i].other_people_infected = people[i].other_people_infected
            /\ exposed_per_day' \in {0, exposed_per_day}
            /\ (\/ \E a \in Ages : pop.infected'[a] > pop.infected[a]
                \/ \E i \in Idx : /\ people[i].state # "INCUBATION"
                                  /\ people'[i].state = "INCUBATION")
                  => ImportIsNext]_vars

\* with the mobility factor at 0 an undetected, infectious person has gone
\* through days of illness next to a susceptible one
C15_Witness ==
    /\ pop.population_mobility_factor = 0
    /\ pc = "returned"
    /\ \E i, j \in Idx :
         /\ people[i].state = "ILLNESS"
         /\ people[i].was_detected = 0
         /\ people[i].day_of_illness >= 2
         /\ people[j].state = "SUSCEPTIBLE"

\* C16: a successful exposure of T by S sets T.infector to S and adds T to
\* S.infectees once: no infectees list holds an index twice, and its length
\* is other_people_infected
C16_InfecteesOnce ==
    \A i \in Idx :
        LET infectees == people[i].infectees
        IN  /\ \A j, k \in 1..Len(infectees) :
                  j # k => infectees[j] # infectees[k]
            /\ Len(infectees) = people[i].other_people_infected
            /\ \A k \in 1..Len(infectees) : people[infectees[k]].infector = i

\* the step is the advance of person i that calls Person.hospitalize
HospitalizeCalled(i) ==
    /\ IllnessEnds(i)
    /\ people[i].symptom_severity \in {"SEVERE", "CRITICAL"}

\* C17: every call of Person.hospitalize leaves the person detected, and
\* all_detected of the person's age grows by one exactly when the person was
\* not detected before; every person in HOSPITALIZED or IN_ICU is detected
C17_HospitalizeDetects ==
    /\ [](\A i \in Idx :
            people[i].state \in {"HOSPITALIZED", "IN_ICU"} => people[i].was_detected = 1)
    /\ [][\A i \in Idx :
            HospitalizeCalled(i) =>
                /\ people'[i].was_detected = 1
                /\ pop.all_detected'[people[i].age] =
                      pop.all_detected[people[i].age]
                        + (IF people[i].was_detected = 0 THEN 1 ELSE 0)]_vars

\* a person has just been taken to hospital whose infector had died without
\* hospital care before the beds were built: as a traced contact the person
\* was tested once, days before it was infectious, and no test detected it
C17_Witness ==
    /\ pc = "people"
    /\ hc.testing_mode = "ALL_WITH_SYMPTOMS_CT"
    /\ hc.tests_run_per_day = 0
    /\ \E i \in Idx :
         /\ person_pos = i + 1
         /\ people[i].infector # -1
         /\ people[people[i].infector].state = "DEAD"
         /\ people[i].was_detected = 1
         /\ \/ /\ people[i].state = "IN_ICU"
               /\ people[i].days_left = Disease_get_icu_days
            \/ /\ people[i].state = "HOSPITALIZED"
               /\ people[i].days_left = Disease_get_hospitalisation_days

\* C18: in Person.advance a person leaves ILLNESS only on the day its
\* days_left reaches 0, to RECOVERED when its severity is ASYMPTOMATIC or
\* MILD; a person enters HOSPITALIZED only with severity SEVERE, taking a
\* bed, and enters IN_ICU only with severity CRITICAL, taking an ICU unit
C18_IllnessEndsBySeverity ==
    [][\A i \in Idx :
          /\ (pc = "people" /\ people[i].state = "ILLNESS"
                 /\ people'[i].state # "ILLNESS")
                => /\ people[i].days_left = 1
                   /\ people'[i].days_left \in
                         {0, Disease_get_hospitalisation_days, Disease_get_icu_days}
                   /\ people[i].symptom_severity \in {"ASYMPTOMATIC", "MILD"}
                         => people'[i].state = "RECOVERED"
          /\ (people[i].state # "HOSPITALIZED" /\ people'[i].state = "HOSPITALIZED")
                => /\ people[i].state = "ILLNESS"
                   /\ people[i].symptom_severity = "SEVERE"
                   /\ hc.available_beds' = hc.available_beds - 1
                   /\ hc.available_icu_units' = hc.available_icu_units
          /\ (people[i].state # "IN_ICU" /\ people'[i].state = "IN_ICU")
                => /\ people[i].state = "ILLNESS"
                   /\ people[i].symptom_severity = "CRITICAL"
                   /\ hc.available_icu_units' = hc.available_icu_units - 1
                   /\ hc.available_beds' = hc.available_beds]_vars

\* a mild case has recovered, and a severe or critical case is in hospital
C18_Witness ==
    /\ \E i \in Idx : /\ people[i].state = "RECOVERED"
                      /\ people[i].symptom_severity = "MILD"
    /\ \E i \in Idx : \/ /\ people[i].state = "HOSPITALIZED"
                         /\ people[i].symptom_severity = "SEVERE"
                      \/ /\ people[i].state = "IN_ICU"
                         /\ people[i].symptom_severity = "CRITICAL"

\* the persons the step adds to the testing queue (HealthcareSystem.iterate
\* starts a new queue, every other step appends to the queue it finds)
AddedToQueue ==
    IF HealthcareIterates THEN Queued(hc.testing_queue')
    ELSE Queued(hc.testing_queue') \ Queued(hc.testing_queue)

\* the step is the advance in which person i falls ill with symptoms and,
\* undetected, calls seek_testing in a mode that queues every caller
SeeksTesting(i) ==
    /\ pc = "people"
    /\ people[i].state = "INCUBATION"
    /\ people'[i].state = "ILLNESS"
    /\ people'[i].symptom_severity # "ASYMPTOMATIC"
    /\ people[i].was_detected = 0
    /\ hc.testing_mode \in {"ALL_WITH_SYMPTOMS", "ALL_WITH_SYMPTOMS_CT"}

\* C19: queue_for_testing adds no person who is DEAD, detected or flagged as
\* queued; it appends any other person once and sets the flag; the pending
\* queue never holds an index twice
C19_QueueForTestingOnce ==
    /\ [](/\ \A j, k \in 1..Len(hc.testing_queue) :
                j # k => hc.testing_queue[j] # hc.testing_queue[k]
           /\ \A i \in Queued(hc.testing_queue) : people[i].queued_for_testing = 1)
    /\ [][/\ \A i \in AddedToQueue :
                /\ people[i].state # "DEAD"
                /\ people[i].was_detected = 0
                /\ people[i].queued_for_testing = 0
                /\ people'[i].queued_for_testing = 1
          /\ Len(hc.testing_queue') =
                (IF HealthcareIterates THEN 0 ELSE Len(hc.testing_queue))
                    + Cardinality(AddedToQueue)
          /\ \A i \in Idx :
                SeeksTesting(i) =>
                    (i \in AddedToQueue <=> people[i].queued_for_testing = 0)]_vars

\* a person who was queued and tested once has just fallen ill with symptoms;
\* the call of queue_for_testing found it flagged and did not add it
C19_Witness ==
    /\ pc = "people"
    /\ hc.testing_mode \in {"ALL_WITH_SYMPTOMS", "ALL_WITH_SYMPTOMS_CT"}
    /\ \E i \in Idx :
         /\ person_pos = i + 1
         /\ people[i].state = "ILLNESS"
         /\ people[i].day_of_illness = 0
         /\ people[i].days_left = Disease_get_illness_days
         /\ people[i].symptom_severity # "ASYMPTOMATIC"
         /\ people[i].was_detected = 0
         /\ people[i].queued_for_testing = 1
         /\ i \notin Queued(hc.testing_queue)

\* the mild_detection_rate values (percent) of the test-only-severe-symptoms
\* interventions that have been applied
ConfiguredRates ==
    {interventions[k].value : k \in
        {j \in 1..Len(interventions) :
            /\ interventions[j].name = "test-only-severe-symptoms"
            /\ applied[j] = 1}}

\* the step is the advance in which person i, undetected and never queued,
\* falls ill with symptoms and calls seek_testing
CallsSeekTesting(i) ==
    /\ pc = "people"
    /\ people[i].state = "INCUBATION"
    /\ people'[i].state = "ILLNESS"
    /\ people'[i].symptom_severity # "ASYMPTOMATIC"
    /\ people[i].was_detected = 0
    /\ people[i].queued_for_testing = 0

\* C20: seek_testing queues the person in the modes ALL_WITH_SYMPTOMS and
\* ALL_WITH_SYMPTOMS_CT; in the mode ONLY_SEVERE_SYMPTOMS it queues every
\* SEVERE or CRITICAL case, no MILD case when the configured
\* mild_detection_rate is 0 and every MILD case when it is 100
C20_SeekTestingByMode ==
    [][\A i \in Idx :
          CallsSeekTesting(i) =>
              /\ hc.testing_mode \in {"ALL_WITH_SYMPTOMS", "ALL_WITH_SYMPTOMS_CT"}
                    => i \in AddedToQueue
              /\ hc.testing_mode = "ONLY_SEVERE_SYMPTOMS" =>
                    /\ people'[i].symptom_severity \in {"SEVERE", "CRITICAL"}
                          => i \in AddedToQueue
                    /\ people'[i].symptom_severity = "MILD" =>
                          /\ ConfiguredRates = {0} => i \notin AddedToQueue
                          /\ ConfiguredRates = {100} => i \in AddedToQueue]_vars

\* the persons one hop from person i: its infector and its infectees
Neighbours(i) ==
    {j \in DOMAIN people :
        \/ people[i].infector = j
        \/ \E k \in 1..Len(people[i].infectees) : people[i].infectees[k] = j}

\* the persons at most n hops from the persons of S
RECURSIVE WithinHops(_, _)
WithinHops(S, n) ==
    IF n = 0 THEN S
    ELSE WithinHops(S \cup UNION {Neighbours(i) : i \in S}, n - 1)

\* the persons the step detects
NewlyDetected ==
    {i \in DOMAIN people : people[i].was_detected = 0 /\ people'[i].was_detected = 1}

\* C21: contact tracing from a newly detected person queues only persons at
\* most 3 hops from it in the infector/infectees graph, and it queues every
\* person at 1 hop who is not dead, not detected and not queued
C21_TracingWithinThreeHops ==
    [][(HealthcareIterates /\ hc.testing_mode = "ALL_WITH_SYMPTOMS_CT") =>
          /\ Queued(hc.testing_queue') \subseteq WithinHops(NewlyDetected, 3)
          /\ \A s \in NewlyDetected :
                \A j \in Neighbours(s) :
                    (/\ people[j].state # "DEAD"
                     /\ people[j].was_detected = 0
                     /\ people'[j].was_detected = 0
                     /\ people[j].queued_for_testing = 0)
                        => j \in Queued(hc.testing_queue')]_vars

\* the tracing has queued three persons and has left out a person who could
\* have been queued: that person is more than three hops away
C21_Witness ==
    /\ pc = "people"
    /\ Cardinality(DOMAIN people) = TracePeople
    /\ Cardinality(Queued(hc.testing_queue)) = 3
    /\ \E j \in DOMAIN people :
         /\ people[j].state # "DEAD"
         /\ people[j].was_detected = 0
         /\ people[j].queued_for_testing = 0

\* the persons in state ILLNESS
IllPersons == {i \in Idx : people[i].state = "ILLNESS"}

\* the sum of other_people_infected over the persons of S
RECURSIVE InfectedBy(_)
InfectedBy(S) ==
    IF S = {} THEN 0
    ELSE LET i == CHOOSE x \in S : TRUE
         IN  people[i].other_people_infected + InfectedBy(S \ {i})

\* C22: after an iterate() total_infectors is the number of persons in state
\* ILLNESS and total_infections the sum of their other_people_infected
\* (persons in other states are not counted), and the r of a snapshot is
\* their quotient, 0 when nobody is in state ILLNESS
C22_RFromIllPersons ==
    /\ pc = "returned" =>
          /\ total_infectors = Cardinality(IllPersons)
          /\ total_infections = InfectedBy(IllPersons)
    /\ pc = "step_callback" =>
          df[Len(df)].r = IF IllPersons = {} THEN <<0, 1>>
                          ELSE <<InfectedBy(IllPersons), Cardinality(IllPersons)>>

\* a snapshot with r = 1/1: an ill person has infected another one, who is
\* in INCUBATION and has infected nobody
C22_Witness ==
    /\ pc = "step_callback"
    /\ df[Len(df)].r = <<1, 1>>
    /\ \E i \in Idx : people[i].state = "INCUBATION"

\* the number of persons of age a whose record satisfies Test
Census(a, Test(_)) ==
    Cardinality({i \in Idx : people[i].age = a /\ Test(people[i])})

\* C23: at every day-end each counter of an age equals the census of the
\* person records of that age
C23_CountersAreCensus ==
    pc = "returned" =>
        \A a \in Ages :
            /\ pop.susceptible[a] = Census(a, LAMBDA p : p.state = "SUSCEPTIBLE")
            /\ pop.infected[a] = Census(a, LAMBDA p : p.is_infected # 0)
            /\ pop.recovered[a] = Census(a, LAMBDA p : p.state = "RECOVERED")
            /\ pop.dead[a] = Census(a, LAMBDA p : p.state = "DEAD")
            /\ pop.hospitalized[a] =
                  Census(a, LAMBDA p : p.state \in {"HOSPITALIZED", "IN_ICU"})
            /\ pop.detected[a] =
                  Census(a, LAMBDA p : p.was_detected # 0 /\ p.is_infected # 0)

\* C24: the beds in use are the persons in state HOSPITALIZED and the ICU
\* units in use are the persons in state IN_ICU
C24_CapacityMatchesOccupants ==
    /\ hc.beds - hc.available_beds =
          Cardinality({i \in Idx : people[i].state = "HOSPITALIZED"})
    /\ hc.icu_units - hc.available_icu_units =
          Cardinality({i \in Idx : people[i].state = "IN_ICU"})

\* C25: a person's queued_for_testing flag is set exactly while the person
\* is in the pending testing queue
C25_FlagWhileQueued ==
    \A i \in Idx :
        people[i].queued_for_testing # 0 <=> i \in Queued(hc.testing_queue)

\* C26: in the mode NO_TESTING a person who falls ill with symptoms is not
\* queued, the testing queue is unchanged and the day loop goes on without
\* an exception
C26_NoTestingNoError ==
    [][\A i \in Idx :
          (/\ pc = "people"
           /\ hc.testing_mode = "NO_TESTING"
           /\ people[i].state = "INCUBATION"
           /\ people'[i].state = "ILLNESS"
           /\ people'[i].symptom_severity # "ASYMPTOMATIC")
              => /\ hc.testing_queue' = hc.testing_queue
                 /\ people'[i].queued_for_testing = people[i].queued_for_testing
                 /\ pc' = "people"
                 /\ exc' = ""]_vars

\* the step is the advance of person i
AdvanceOf(i) == pc = "people" /\ person_pos' = i + 1

\* C27: people_exposed returns 0 for a detected person; an advance of a
\* person who is already detected leaves other_people_exposed_today at 0 and
\* the tally of exposures unchanged, and the infectees and the
\* other_people_infected of a detected person never grow
C27_DetectedIsQuarantined ==
    /\ [](\A i \in Idx :
            (people[i].was_detected # 0 /\ people[i].state \in {"INCUBATION", "ILLNESS"})
                => \A l \in ContactsLognormal : Disease_people_exposed(Ctx, i, l) = 0)
    /\ [][\A i \in Idx :
            people[i].was_detected # 0 =>
                /\ people'[i].infectees = people[i].infectees
                /\ people'[i].other_people_infected = people[i].other_people_infected
                /\ AdvanceOf(i) =>
                      /\ people'[i].other_people_exposed_today = 0
                      /\ exposed_per_day' = exposed_per_day]_vars

\* a detected person has gone through infectious days of its illness next to
\* a susceptible person
C27_Witness ==
    /\ pc = "returned"
    /\ \E i, j \in Idx :
         /\ people[i].state = "ILLNESS"
         /\ people[i].was_detected = 1
         /\ people[i].day_of_illness >= 3
         /\ people[j].state = "SUSCEPTIBLE"

\* the largest number of further iterate() calls after which the infection of
\* a person with record p is over: the rest of its present stage and the
\* longest stages that can follow
Remaining(p) ==
    IF p.state = "INCUBATION"
    THEN p.days_left + Disease_get_illness_days + Disease_get_icu_days
    ELSE IF p.state = "ILLNESS" THEN p.days_left + Disease_get_icu_days
    ELSE IF p.state \in {"HOSPITALIZED", "IN_ICU"} THEN p.days_left
    ELSE 0

\* C28: when an iterate() call has returned, every infected person has at
\* least one day left in its stage, and the calls made since the call of its
\* latest infection plus the calls its infection can still last are at most
\* 42: no person is still infected after 42 further calls
C28_InfectionResolves ==
    pc = "returned" =>
        \A i \in Idx :
            people[i].is_infected # 0 =>
                /\ infected_on[i] >= 0
                /\ people[i].days_left >= 1
                /\ (day - 1 - infected_on[i]) + Remaining(people[i]) <= 42

\* a critical case has gone through incubation, illness and the ICU and has
\* recovered, and nobody is infected any more
C28_Witness ==
    /\ pc = "returned"
    /\ \A i \in Idx : people[i].is_infected = 0
    /\ \E i \in Idx : /\ people[i].symptom_severity = "CRITICAL"
                      /\ people[i].state = "RECOVERED"

\* the worker of the object p has left run()
RunEnded(p) == processes[p].pc \in {"done", "raised"}

\* the step is the one in which run() of the object p sets the finished
\* entry
SetsFinished(p) == processes'[p].finished_set /\ ~processes[p].finished_set

\* C29: a run() that was entered ends, after each of the three outcomes of
\* the simulation, having set the finished entry to True; only a run() whose
\* simulation raised another exception sets the error entry to a message;
\* and a run() whose simulation returned has written the final results
\* before it sets the finished entry.
C29_RunEndsFinished ==
    [][\A p \in Processes :
          /\ SetsFinished(p) => cache'.finished = "True"
          /\ processes'[p].pc \in {"done", "raised"} =>
                processes'[p].finished_set
          /\ (cache'.error = "message" /\ cache.error # "message"
                 /\ processes'[p] # processes[p]) =>
                processes[p].outcome = "Exception"
          /\ processes'[p].outcome # "Exception" =>
                processes'[p].pc # "raised"
          /\ (SetsFinished(p) /\ processes[p].outcome = "returned") =>
                processes[p].written = "final"]_vars

\* a run() ended after the simulation returned: the results are the final
\* ones, the finished entry is True and there is no error
C29_Witness ==
    \E p \in Processes :
       /\ RunEnded(p)
       /\ processes[p].outcome = "returned"
       /\ cache = [finished |-> "True", error |-> "None", results |-> "final"]

\* the object p has written an entry in start() or spawned a worker
Started(p) == processes[p].reset \/ processes[p].spawned

\* C30: of the objects of one cache key whose start() calls interleave, at
\* most one spawns a worker, and beside the one that spawned no other one
\* resets the finished or the error entry or spawns.
C30_AtMostOneSpawns ==
    \A p, q \in Processes : (processes[p].spawned /\ Started(q)) => p = q

====
